---- MODULE Spec2Model ----
(***************************************************************************)
(* The concurrency-safe configuration store of azul-client                 *)
(* (src/azul_client/config.py): the module-level FileLock that decorates   *)
(* get_config, Config.save and clear_auth, the read-merge-write of the ini *)
(* file, and the conversions between a Config record and its stored text.  *)
(*                                                                         *)
(* Workers are threads; threads 1 and 2 live in process 1, every further   *)
(* thread is a process of its own.  FileLock is constructed with its       *)
(* default arguments (config.py:40), so each thread has its own lock       *)
(* context (counter and descriptor) and the OS lock is an flock on the     *)
(* descriptor that the context opened.                                     *)
(***************************************************************************)
EXTENDS Integers, Sequences, FiniteSets, TLC

\* ------------------------------------------------------------- bounds
NumThreads == 3
MaxCalls == 2
MaxFaults == 1
MaxStrLen == 2
MaxTime == 1
MaxWorkerCalls == 4

Threads == 1..NumThreads
ProcOf(t) == IF t <= 2 THEN 1 ELSE t - 1
Procs == {ProcOf(t) : t \in Threads}

Sections == {"default", "other"}
NoThread == 0
None == [isnone |-> TRUE, rec |-> [azul_url |-> <<>>,
          auth_token |-> [isnone |-> TRUE, has_t |-> FALSE, t |-> <<>>], auth_token_time |-> 0]]

\* ------------------------------------------------------------- text
\* A string is a sequence of symbols.  The alphabet holds a plain character,
\* the slash that no_trailing_slash strips, the percent sign that configparser
\* interpolates, and the blank that configparser strips.
Alphabet == {"a", "/", "%", " "}
JsonOpen == "{\"t\": \""
JsonClose == "\"}"

RECURSIVE StrOfLen(_)
StrOfLen(n) == IF n = 0 THEN {<<>>}
               ELSE {Append(s, c) : s \in StrOfLen(n - 1), c \in Alphabet}
Str == UNION {StrOfLen(n) : n \in 0..MaxStrLen}

\* str.rstrip("/") of no_trailing_slash
RECURSIVE rstrip_slash(_)
rstrip_slash(v) == IF Len(v) > 0 /\ v[Len(v)] = "/"
                   THEN rstrip_slash(SubSeq(v, 1, Len(v) - 1)) ELSE v

no_trailing_slash(v) == rstrip_slash(v)

\* str.strip() as configparser applies it to a value it reads
RECURSIVE lstrip(_)
lstrip(v) == IF Len(v) > 0 /\ v[1] = " " THEN lstrip(Tail(v)) ELSE v
RECURSIVE rstrip(_)
rstrip(v) == IF Len(v) > 0 /\ v[Len(v)] = " " THEN rstrip(SubSeq(v, 1, Len(v) - 1)) ELSE v
strip(v) == rstrip(lstrip(v))

\* value.replace("%%", "") of BasicInterpolation.before_set
RECURSIVE RemoveDoubledPercent(_)
RemoveDoubledPercent(v) ==
  IF Len(v) < 2 THEN v
  ELSE IF v[1] = "%" /\ v[2] = "%" THEN RemoveDoubledPercent(SubSeq(v, 3, Len(v)))
  ELSE <<v[1]>> \o RemoveDoubledPercent(Tail(v))

HasPercent(v) == \E i \in 1..Len(v) : v[i] = "%"

\* BasicInterpolation.before_set: a lone percent sign is refused (ValueError)
before_set_ok(v) == ~HasPercent(RemoveDoubledPercent(v))

\* BasicInterpolation.before_get: "%%" reads back as "%"; a percent sign
\* followed by anything else of the alphabet is an InterpolationSyntaxError.
RECURSIVE before_get(_)
before_get(v) ==
  IF Len(v) = 0 THEN [ok |-> TRUE, val |-> <<>>]
  ELSE IF v[1] = "%"
       THEN IF Len(v) >= 2 /\ v[2] = "%"
            THEN LET r == before_get(SubSeq(v, 3, Len(v)))
                 IN [ok |-> r.ok, val |-> <<"%">> \o r.val]
            ELSE [ok |-> FALSE, val |-> <<>>]
       ELSE LET r == before_get(Tail(v))
            IN [ok |-> r.ok, val |-> <<v[1]>> \o r.val]

\* ------------------------------------------------------------- Config
EmptyDict == [isnone |-> FALSE, has_t |-> FALSE, t |-> <<>>]
NoneToken == [isnone |-> TRUE, has_t |-> FALSE, t |-> <<>>]
Dict(s) == [isnone |-> FALSE, has_t |-> TRUE, t |-> s]

Keys == <<"azul_url", "auth_token", "auth_token_time">>

\* Config(): the compiled-in defaults
DefaultConfig == [azul_url |-> <<"http://localhost">>, auth_token |-> EmptyDict,
                  auth_token_time |-> 0]

Some(r) == [isnone |-> FALSE, rec |-> r]

\* json.dumps of the token
json_dumps(tok) == IF tok.isnone THEN <<"null">>
                   ELSE IF ~tok.has_t THEN <<"{}">>
                   ELSE <<JsonOpen>> \o tok.t \o <<JsonClose>>

\* json.loads of a stored token
json_loads(v) ==
  IF v = <<"null">> THEN [ok |-> TRUE, tok |-> NoneToken]
  ELSE IF v = <<"{}">> THEN [ok |-> TRUE, tok |-> EmptyDict]
  ELSE IF Len(v) >= 2 /\ v[1] = JsonOpen /\ v[Len(v)] = JsonClose
          /\ \A i \in 2..(Len(v) - 1) : v[i] \in Alphabet
       THEN [ok |-> TRUE, tok |-> Dict(SubSeq(v, 2, Len(v) - 1))]
  ELSE [ok |-> FALSE, tok |-> NoneToken]

\* str(int) and pydantic's parse of an int field
str_int(n) == IF n = 0 THEN <<"0">> ELSE IF n = 1 THEN <<"1">> ELSE <<"2">>
parse_int(v) ==
  LET w == strip(v)
  IN IF w = <<"0">> THEN [ok |-> TRUE, n |-> 0]
     ELSE IF w = <<"1">> THEN [ok |-> TRUE, n |-> 1]
     ELSE IF w = <<"2">> THEN [ok |-> TRUE, n |-> 2]
     ELSE [ok |-> FALSE, n |-> 0]

\* model_dump with the token as a JSON string (save, lines 66-68), each value
\* as read_dict stores it: str(value)
model_dump(r) ==
  << <<"azul_url", r.azul_url>>,
     <<"auth_token", json_dumps(r.auth_token)>>,
     <<"auth_token_time", str_int(r.auth_token_time)>> >>

\* ------------------------------------------------------------- the ini file
\* The file is a sequence of lines: a section header, an option of the section
\* above it, or text that is neither.
Header(s) == [kind |-> "header", sec |-> s, key |-> "", val |-> <<>>]
Option(k, v) == [kind |-> "option", sec |-> "", key |-> k, val |-> v]
Junk == [kind |-> "junk", sec |-> "", key |-> "", val |-> <<>>]

\* A parsed file (the ConfigParser's content) is a sequence of sections in file
\* order, each [sec, items], items a sequence of <<key, value>>.
HasSection(cfg, s) == \E i \in 1..Len(cfg) : cfg[i].sec = s
SectionItems(cfg, s) == cfg[CHOOSE i \in 1..Len(cfg) : cfg[i].sec = s].items
HasKey(items, k) == \E i \in 1..Len(items) : items[i][1] = k
ValueOf(items, k) == items[CHOOSE i \in 1..Len(items) : items[i][1] = k][2]
\* a section's content regardless of order
ItemSet(items) == {items[i] : i \in 1..Len(items)}
SectionsOf(cfg) == {cfg[i].sec : i \in 1..Len(cfg)}

\* ConfigParser.read: options are stripped; text before the first header, a
\* repeated section or a repeated option is a parsing error (strict mode).
RECURSIVE ParseLines(_, _, _)
ParseLines(lines, i, acc) ==
  IF i > Len(lines) THEN [ok |-> TRUE, cfg |-> acc]
  ELSE LET l == lines[i] IN
    IF l.kind = "junk" THEN [ok |-> FALSE, cfg |-> <<>>]
    ELSE IF l.kind = "header"
      THEN IF HasSection(acc, l.sec) THEN [ok |-> FALSE, cfg |-> <<>>]
           ELSE ParseLines(lines, i + 1, Append(acc, [sec |-> l.sec, items |-> <<>>]))
    ELSE IF Len(acc) = 0 \/ HasKey(acc[Len(acc)].items, l.key)
      THEN [ok |-> FALSE, cfg |-> <<>>]
      ELSE ParseLines(lines, i + 1,
             [acc EXCEPT ![Len(acc)].items = Append(@, <<l.key, strip(l.val)>>)])

\* ConfigParser.read(location): a missing file is skipped and reads as empty
ConfigParser_read(exists, lines) ==
  IF exists THEN ParseLines(lines, 1, <<>>) ELSE [ok |-> TRUE, cfg |-> <<>>]

\* (mutant) the section is written alone, without what the re-read found
OnlyOwnSection(cfg, s, items) == <<[sec |-> s, items |-> items]>>

\* (mutant) a section that the file already holds is kept as it is
KeepExistingSection(cfg, s, items) ==
  IF HasSection(cfg, s) THEN cfg ELSE Append(cfg, [sec |-> s, items |-> items])

\* cfg[section] = tmp: the section is replaced where it stands, or appended
ReplaceSection(cfg, s, items) ==
  IF HasSection(cfg, s)
  THEN [i \in 1..Len(cfg) |-> IF cfg[i].sec = s THEN [sec |-> s, items |-> items] ELSE cfg[i]]
  ELSE Append(cfg, [sec |-> s, items |-> items])

\* cfg.write(configfile): a header line, then one line per option
RECURSIVE OptionLines(_, _)
OptionLines(items, i) ==
  IF i > Len(items) THEN <<>>
  ELSE <<Option(items[i][1], items[i][2])>> \o OptionLines(items, i + 1)
RECURSIVE WriteLines(_, _)
WriteLines(cfg, i) ==
  IF i > Len(cfg) THEN <<>>
  ELSE <<Header(cfg[i].sec)>> \o OptionLines(cfg[i].items, 1) \o WriteLines(cfg, i + 1)
ConfigParser_write(cfg) == WriteLines(cfg, 1)

\* get_config, lines 101-114: the section's options through interpolation, the
\* token through json.loads when it is a non-empty string, then Config(**conf)
\* with the defaults for absent options.
FieldText(items, k) == IF HasKey(items, k) THEN before_get(ValueOf(items, k))
                       ELSE [ok |-> TRUE, val |-> <<>>]
LoadSection(items) ==
  LET url == FieldText(items, "azul_url")
      tok == FieldText(items, "auth_token")
      tim == FieldText(items, "auth_token_time")
      jtok == json_loads(tok.val)
      ptim == parse_int(tim.val)
  IN IF ~(url.ok /\ tok.ok /\ tim.ok)
       THEN [err |-> "InterpolationSyntaxError", conf |-> None]
     ELSE IF HasKey(items, "auth_token") /\ tok.val # <<>> /\ ~jtok.ok
       THEN [err |-> "JSONDecodeError", conf |-> None]
     ELSE IF (HasKey(items, "auth_token") /\ tok.val = <<>>)
             \/ (HasKey(items, "auth_token_time") /\ ~ptim.ok)
       THEN [err |-> "ValidationError", conf |-> None]
     ELSE [err |-> "none",
           conf |-> Some([azul_url |-> IF HasKey(items, "azul_url")
                                       THEN no_trailing_slash(url.val)
                                       ELSE DefaultConfig.azul_url,
                          auth_token |-> IF HasKey(items, "auth_token") THEN jtok.tok
                                         ELSE DefaultConfig.auth_token,
                          auth_token_time |-> IF HasKey(items, "auth_token_time") THEN ptim.n
                                              ELSE DefaultConfig.auth_token_time])]

\* (mutant) any missing section falls back to the defaults
LoadConfigAnyFallback(exists, lines, s) ==
  LET p == ConfigParser_read(exists, lines)
  IN IF ~p.ok THEN [err |-> "ParsingError", conf |-> None]
     ELSE IF ~HasSection(p.cfg, s) THEN LoadSection(<<>>)
     ELSE LoadSection(SectionItems(p.cfg, s))

\* (mutant) a missing section is an error whatever its name
LoadConfigNoFallback(exists, lines, s) ==
  LET p == ConfigParser_read(exists, lines)
  IN IF ~p.ok THEN [err |-> "ParsingError", conf |-> None]
     ELSE IF ~HasSection(p.cfg, s) THEN [err |-> "Exception", conf |-> None]
     ELSE LoadSection(SectionItems(p.cfg, s))

\* the whole read of get_config for active section s
LoadConfig(exists, lines, s) ==
  LET p == ConfigParser_read(exists, lines)
  IN IF ~p.ok THEN [err |-> "ParsingError", conf |-> None]
     ELSE IF ~HasSection(p.cfg, s)
       THEN IF s = "default" THEN LoadSection(<<>>)
            ELSE [err |-> "Exception", conf |-> None]
     ELSE LoadSection(SectionItems(p.cfg, s))

\* (mutant) a file that cannot be parsed is taken as empty and overwritten
MergeConfigDiscard(exists, lines, s, r) ==
  LET p == ConfigParser_read(exists, lines)
      tmp == model_dump(r)
  IN IF \E i \in 1..Len(tmp) : tmp[i][2] # <<>> /\ ~before_set_ok(tmp[i][2])
       THEN [err |-> "ValueError", cfg |-> <<>>]
     ELSE [err |-> "none", cfg |-> ReplaceSection(p.cfg, s, tmp)]

\* save, lines 71-73: re-read the file, then replace the active section
MergeConfig(exists, lines, s, r) ==
  LET p == ConfigParser_read(exists, lines)
      tmp == model_dump(r)
  IN IF ~p.ok THEN [err |-> "ParsingError", cfg |-> <<>>]
     ELSE IF \E i \in 1..Len(tmp) : tmp[i][2] # <<>> /\ ~before_set_ok(tmp[i][2])
       THEN [err |-> "ValueError", cfg |-> <<>>]
     ELSE [err |-> "none", cfg |-> ReplaceSection(p.cfg, s, tmp)]

\* ------------------------------------------------------------- state
VARIABLES
  ini_exists,      \* os.path.exists(azul_config_location)
  ini_lines,       \* the content of the config file
  flock,           \* the thread whose descriptor holds the OS lock on the lock file
  lock_counter,    \* per thread: the FileLock context's lock counter
  config_section,  \* per process: the global config_section
  stack,           \* per thread: the functions being run, outermost first
  pc,              \* per thread: the place in the innermost function
  conf,            \* per thread: the caller's Config object (None before a load)
  self,            \* per thread: the Config that save was called on
  cfg,             \* per thread: save's ConfigParser after line 73
  wpos,            \* per thread: sections of cfg already written by save
  exc,             \* per thread: the exception propagating, or "none"
  result,          \* per thread: how the last outermost call ended
  calls,           \* calls made by the callers so far
  faults,          \* I/O errors injected so far
  touched,         \* per thread: the running outermost call has used the config file
  committed,       \* the file as the last completed write left it
  presave,         \* per thread: the active section and the file at save's re-read
  booted,          \* per thread: the running get_config generated the defaults
  secs             \* per thread: the active sections the running outermost call has used

vars == <<ini_exists, ini_lines, flock, lock_counter, config_section, stack, pc, conf,
          self, cfg, wpos, exc, result, calls, faults, touched, committed, presave,
          booted, secs>>

\* (mutants) only get_config decorated, and clear_auth left without the decorator
DecoratedOnlyGetConfig == {"get_config"}
DecoratedExceptClearAuth == {"get_config", "save", "update_azul_ini"}

\* the functions wrapped by @_lock_azul_config
Decorated == {"get_config", "save", "clear_auth", "update_azul_ini"}

\* (mutants) reentrancy keyed by the process instead of the calling context,
\* and a lock that does not know it is held
is_locked_by_process(t) == flock # NoThread /\ ProcOf(flock) = ProcOf(t)
is_never_locked(t) == FALSE

\* FileLock.is_locked of the calling thread's context
is_locked(t) == flock = t

\* (mutant) an flock that excludes nobody
flock_always_free == TRUE

\* the flock(LOCK_EX | LOCK_NB) of FileLock._acquire succeeds
flock_free == flock = NoThread

Top(t) == stack[t][Len(stack[t])]
Compound == {"clear_auth", "update_azul_ini"}
FirstPc(fn) == IF fn = "get_config" THEN "exists"
               ELSE IF fn = "save" THEN "merge" ELSE "load"
\* where the caller goes on when the callee returns normally
ResumePc(caller, callee) ==
  IF caller = "get_config" THEN "read"
  ELSE IF callee = "get_config" THEN "store" ELSE "exit"
BodyPcs == {"exists", "read", "merge", "open", "write", "load", "store"}
FilePcs == {"exists", "read", "merge", "open", "write"}

NoPresave == [sec |-> "", lines |-> <<>>]

\* the records a pre-populated file holds
Populated == [azul_url |-> <<"a">>, auth_token |-> Dict(<<"a">>), auth_token_time |-> 1]
SectionLines(s, r) == ConfigParser_write(<<[sec |-> s, items |-> model_dump(r)]>>)
InitFiles ==
  { [exists |-> FALSE, lines |-> <<>>],
    [exists |-> TRUE, lines |-> SectionLines("default", Populated)],
    [exists |-> TRUE, lines |-> SectionLines("other", Populated)],
    [exists |-> TRUE, lines |-> SectionLines("other", DefaultConfig)
                                 \o SectionLines("default", Populated)],
    [exists |-> TRUE, lines |-> <<Junk>> \o SectionLines("default", Populated)],
    [exists |-> TRUE, lines |-> <<Header("default"), Option("auth_token", <<"a">>)>>] }

Init ==
  /\ \E f \in InitFiles : ini_exists = f.exists /\ ini_lines = f.lines
                          /\ committed = f.lines
  /\ flock = NoThread
  /\ lock_counter = [t \in Threads |-> 0]
  /\ config_section = [p \in Procs |-> "default"]
  /\ stack = [t \in Threads |-> <<>>]
  /\ pc = [t \in Threads |-> "idle"]
  /\ conf = [t \in Threads |-> None]
  /\ self = [t \in Threads |-> None]
  /\ cfg = [t \in Threads |-> <<>>]
  /\ wpos = [t \in Threads |-> 0]
  /\ exc = [t \in Threads |-> "none"]
  /\ result = [t \in Threads |-> "none"]
  /\ calls = 0
  /\ faults = 0
  /\ touched = [t \in Threads |-> FALSE]
  /\ presave = [t \in Threads |-> NoPresave]
  /\ booted = [t \in Threads |-> FALSE]
  /\ secs = [t \in Threads |-> {}]

\* ------------------------------------------------------------- callers
\* (mutant) the active section is shared by every process
switch_section_everywhere(p, s) ==
  /\ config_section[p] # s /\ calls < MaxCalls
  /\ calls' = calls + 1
  /\ config_section' = [q \in Procs |-> s]
  /\ UNCHANGED <<ini_exists, ini_lines, flock, lock_counter, stack, pc, conf, self, cfg,
                 wpos, exc, result, faults, touched, committed, presave, booted, secs>>

\* switch_section(section)
switch_section(p, s) ==
  /\ config_section[p] # s /\ calls < MaxCalls
  /\ calls' = calls + 1
  /\ config_section' = [config_section EXCEPT ![p] = s]
  /\ UNCHANGED <<ini_exists, ini_lines, flock, lock_counter, stack, pc, conf, self, cfg,
                 wpos, exc, result, faults, touched, committed, presave, booted, secs>>

\* a collaborator changes one field of the Config it loaded (a refreshed token,
\* or its issue time)
Mutate(t) ==
  /\ pc[t] = "idle" /\ ~conf[t].isnone /\ calls < MaxCalls
  /\ calls' = calls + 1
  /\ \E r \in { [conf[t].rec EXCEPT !.auth_token = Dict(<<"/">>)],
                [conf[t].rec EXCEPT !.auth_token_time = 1 - @] } :
        /\ r # conf[t].rec
        /\ conf' = [conf EXCEPT ![t] = Some(r)]
  /\ UNCHANGED <<ini_exists, ini_lines, flock, lock_counter, config_section, stack, pc,
                 self, cfg, wpos, exc, result, faults, touched, committed, presave, booted, secs>>

\* ------------------------------------------------------------- the lock
\* an exception raised in the body of Top(t) leaves it through its exit
Unwind(t, e) ==
  /\ exc' = [exc EXCEPT ![t] = e]
  /\ pc' = [pc EXCEPT ![t] = "exit"]

\* the frame of Top(t) is popped: to the caller, or to the thread's idle loop
Pop(t) ==
  LET rest == SubSeq(stack[t], 1, Len(stack[t]) - 1)
  IN /\ stack' = [stack EXCEPT ![t] = rest]
     /\ IF rest = <<>>
        THEN /\ pc' = [pc EXCEPT ![t] = "idle"]
             /\ result' = [result EXCEPT ![t] = IF exc[t] = "none" THEN "ok" ELSE exc[t]]
             /\ exc' = [exc EXCEPT ![t] = "none"]
        ELSE /\ pc' = [pc EXCEPT ![t] =
                    IF exc[t] # "none" THEN "exit"
                    ELSE ResumePc(rest[Len(rest)], Top(t))]
             /\ UNCHANGED <<result, exc>>

\* the decorator's __enter__ on entry to fn (FileLock.acquire, first attempt):
\* the counter goes up; a context that holds the lock goes on, another tries
\* the flock and waits when it is taken.  A function that is not decorated
\* starts at once.
Enter(t, fn) ==
  IF fn \notin Decorated
  THEN /\ pc' = [pc EXCEPT ![t] = FirstPc(fn)]
       /\ UNCHANGED <<lock_counter, flock>>
  ELSE /\ lock_counter' = [lock_counter EXCEPT ![t] = @ + 1]
       /\ IF is_locked(t)
          THEN /\ pc' = [pc EXCEPT ![t] = FirstPc(fn)]
               /\ UNCHANGED flock
          ELSE IF flock_free
          THEN /\ pc' = [pc EXCEPT ![t] = FirstPc(fn)]
               /\ flock' = t
          ELSE /\ pc' = [pc EXCEPT ![t] = "waiting"]
               /\ UNCHANGED flock

\* an outermost call of get_config(), conf.save(), clear_auth() or the
\* test's update_azul_ini()
Invoke(t, fn) ==
  /\ pc[t] = "idle"
  /\ fn = "save" => ~conf[t].isnone
  /\ calls' = calls + 1
  /\ stack' = [stack EXCEPT ![t] = <<fn>>]
  /\ Enter(t, fn)
  /\ self' = [self EXCEPT ![t] = IF fn = "save" THEN conf[t] ELSE None]
  /\ touched' = [touched EXCEPT ![t] = FALSE]
  /\ booted' = [booted EXCEPT ![t] = FALSE]
  /\ secs' = [secs EXCEPT ![t] = {}]
  /\ result' = [result EXCEPT ![t] = "running"]
  /\ UNCHANGED <<ini_exists, ini_lines, config_section, conf, cfg, wpos, exc, faults,
                 committed, presave>>

\* the callers of the general model make MaxCalls calls between them
Call(t, fn) == calls < MaxCalls /\ Invoke(t, fn)

\* FileLock.acquire, a later attempt of the poll loop that succeeds
Poll(t) ==
  /\ pc[t] = "waiting"
  /\ flock_free
  /\ flock' = t
  /\ pc' = [pc EXCEPT ![t] = FirstPc(Top(t))]
  /\ UNCHANGED <<ini_exists, ini_lines, lock_counter, config_section, stack, conf, self,
                 cfg, wpos, exc, result, calls, faults, touched, committed, presave, booted, secs>>

\* (mutant) the timeout is reported and the body runs all the same
TimeoutProceeds(t) ==
  /\ pc[t] = "waiting"
  /\ flock # NoThread
  /\ result' = [result EXCEPT ![t] = "Timeout"]
  /\ pc' = [pc EXCEPT ![t] = FirstPc(Top(t))]
  /\ UNCHANGED <<ini_exists, ini_lines, flock, lock_counter, config_section, stack, conf,
                 self, cfg, wpos, exc, calls, faults, touched, committed, presave, booted,
                 secs>>

\* FileLock.acquire, an attempt that fails after token_lock_timeout: the counter
\* is taken back and Timeout is raised out of __enter__, so neither the body
\* nor __exit__ runs
Timeout(t) ==
  /\ pc[t] = "waiting"
  /\ ~flock_free
  /\ lock_counter' = [lock_counter EXCEPT ![t] = IF @ > 0 THEN @ - 1 ELSE 0]
  /\ LET rest == SubSeq(stack[t], 1, Len(stack[t]) - 1)
     IN /\ stack' = [stack EXCEPT ![t] = rest]
        /\ IF rest = <<>>
           THEN /\ pc' = [pc EXCEPT ![t] = "idle"]
                /\ result' = [result EXCEPT ![t] = "Timeout"]
                /\ UNCHANGED exc
           ELSE /\ pc' = [pc EXCEPT ![t] = "exit"]
                /\ exc' = [exc EXCEPT ![t] = "Timeout"]
                /\ UNCHANGED result
  /\ UNCHANGED <<ini_exists, ini_lines, flock, config_section, conf, self, cfg, wpos,
                 calls, faults, touched, committed, presave, booted, secs>>

\* the decorator's __exit__ (FileLock.release), on return and on exception: the
\* counter goes down and the flock is dropped when it reaches 0
\* (Exit, below: the end of Top(t), by return or by exception; the frame is popped)
\* (mutant) a release that is skipped when the body raised
ReleaseUnlessRaised(t) ==
  IF Top(t) \in Decorated /\ flock = t /\ exc[t] = "none"
  THEN /\ lock_counter' = [lock_counter EXCEPT ![t] = @ - 1]
       /\ flock' = IF lock_counter[t] = 1 THEN NoThread ELSE flock
  ELSE UNCHANGED <<lock_counter, flock>>

\* (mutant) every exit of a decorated function drops the flock
ReleaseAtEveryExit(t) ==
  IF Top(t) \in Decorated /\ is_locked(t)
  THEN /\ lock_counter' = [lock_counter EXCEPT ![t] = @ - 1]
       /\ flock' = NoThread
  ELSE UNCHANGED <<lock_counter, flock>>

Release(t) ==
  IF Top(t) \in Decorated /\ is_locked(t)
  THEN /\ lock_counter' = [lock_counter EXCEPT ![t] = @ - 1]
       /\ flock' = IF lock_counter[t] = 1 THEN NoThread ELSE flock
  ELSE UNCHANGED <<lock_counter, flock>>

Exit(t) ==
  /\ pc[t] = "exit"
  /\ Release(t)
  /\ Pop(t)
  /\ IF Top(t) = "save"
     THEN /\ self' = [self EXCEPT ![t] = None]
          /\ cfg' = [cfg EXCEPT ![t] = <<>>]
          /\ wpos' = [wpos EXCEPT ![t] = 0]
          /\ presave' = [presave EXCEPT ![t] = NoPresave]
     ELSE UNCHANGED <<self, cfg, wpos, presave>>
  /\ IF Len(stack[t]) = 1
     THEN /\ touched' = [touched EXCEPT ![t] = FALSE]
          /\ booted' = [booted EXCEPT ![t] = FALSE]
          /\ secs' = [secs EXCEPT ![t] = {}]
     ELSE UNCHANGED <<touched, booted, secs>>
  /\ UNCHANGED <<ini_exists, ini_lines, config_section, conf, calls, faults, committed>>

\* ------------------------------------------------------------- get_config
Push(t, fn) ==
  /\ stack' = [stack EXCEPT ![t] = Append(@, fn)]
  /\ Enter(t, fn)

\* (mutant) the defaults are returned without being saved
GcExistsNoSave(t) ==
  /\ pc[t] = "exists"
  /\ touched' = [touched EXCEPT ![t] = TRUE]
  /\ pc' = [pc EXCEPT ![t] = "read"]
  /\ booted' = [booted EXCEPT ![t] = ~ini_exists]
  /\ UNCHANGED <<ini_exists, ini_lines, flock, lock_counter, config_section, stack, conf,
                 self, cfg, wpos, exc, result, calls, faults, committed, presave, secs>>

\* lines 91-96: the existence check, and the defaults saved when there is no file
GcExists(t) ==
  /\ pc[t] = "exists"
  /\ touched' = [touched EXCEPT ![t] = TRUE]
  /\ IF ini_exists
     THEN /\ pc' = [pc EXCEPT ![t] = "read"]
          /\ UNCHANGED <<stack, self, booted>>
     ELSE /\ Push(t, "save")
          /\ self' = [self EXCEPT ![t] = Some(DefaultConfig)]
          /\ booted' = [booted EXCEPT ![t] = TRUE]
  /\ IF ini_exists THEN UNCHANGED <<flock, lock_counter>> ELSE TRUE
  /\ UNCHANGED <<ini_exists, ini_lines, config_section, conf, cfg, wpos, exc, result,
                 calls, faults, committed, presave, secs>>

\* lines 98-116: read the file, take the active section, build the Config
GcRead(t) ==
  /\ pc[t] = "read"
  /\ touched' = [touched EXCEPT ![t] = TRUE]
  /\ LET r == LoadConfig(ini_exists, ini_lines, config_section[ProcOf(t)])
     IN IF r.err = "none"
        THEN /\ conf' = [conf EXCEPT ![t] = r.conf]
             /\ pc' = [pc EXCEPT ![t] = "exit"]
             /\ UNCHANGED exc
        ELSE /\ Unwind(t, r.err)
             /\ UNCHANGED conf
  /\ secs' = [secs EXCEPT ![t] = @ \cup {config_section[ProcOf(t)]}]
  /\ UNCHANGED <<ini_exists, ini_lines, flock, lock_counter, config_section, stack, self,
                 cfg, wpos, result, calls, faults, committed, presave, booted>>

\* ------------------------------------------------------------- Config.save
\* lines 66-73: dump the record, re-read the file, replace the active section
SvMerge(t) ==
  /\ pc[t] = "merge"
  /\ touched' = [touched EXCEPT ![t] = TRUE]
  /\ presave' = [presave EXCEPT ![t] = [sec |-> config_section[ProcOf(t)], lines |-> ini_lines]]
  /\ secs' = [secs EXCEPT ![t] = @ \cup {config_section[ProcOf(t)]}]
  /\ LET m == MergeConfig(ini_exists, ini_lines, config_section[ProcOf(t)], self[t].rec)
     IN IF m.err = "none"
        THEN /\ cfg' = [cfg EXCEPT ![t] = m.cfg]
             /\ pc' = [pc EXCEPT ![t] = "open"]
             /\ UNCHANGED exc
        ELSE /\ Unwind(t, m.err)
             /\ UNCHANGED cfg
  /\ UNCHANGED <<ini_exists, ini_lines, flock, lock_counter, config_section, stack, conf,
                 self, wpos, result, calls, faults, committed, booted>>

FaultChoices == IF faults < MaxFaults THEN {FALSE, TRUE} ELSE {FALSE}

\* line 74: open(location, "w") creates or truncates the file, or fails
SvOpen(t) ==
  /\ pc[t] = "open"
  /\ \E fail \in FaultChoices :
       IF fail
       THEN /\ Unwind(t, "OSError")
            /\ faults' = faults + 1
            /\ UNCHANGED <<ini_exists, ini_lines, wpos>>
       ELSE /\ ini_exists' = TRUE
            /\ ini_lines' = <<>>
            /\ wpos' = [wpos EXCEPT ![t] = 0]
            /\ pc' = [pc EXCEPT ![t] = "write"]
            /\ UNCHANGED <<exc, faults>>
  /\ UNCHANGED <<flock, lock_counter, config_section, stack, conf, self, cfg, result,
                 calls, touched, committed, presave, booted, secs>>

\* the file after chunk is written at offset pos (in lines) of the writer's own
\* descriptor: what lies between the end of the file and pos is a hole
WriteAt(lines, pos, chunk) ==
  LET end == pos + Len(chunk)
  IN [i \in 1..(IF Len(lines) > end THEN Len(lines) ELSE end) |->
        IF i > pos /\ i <= end THEN chunk[i - pos]
        ELSE IF i <= Len(lines) THEN lines[i] ELSE Junk]

\* line 75: cfg.write(configfile) reaches the file a section at a time (the
\* header and its options); the write may fail midway
SvWrite(t) ==
  /\ pc[t] = "write"
  /\ \E fail \in FaultChoices :
       IF fail
       THEN /\ Unwind(t, "OSError")
            /\ faults' = faults + 1
            /\ UNCHANGED <<ini_lines, wpos, committed>>
       ELSE /\ ini_lines' = WriteAt(ini_lines,
                                    Len(ConfigParser_write(SubSeq(cfg[t], 1, wpos[t]))),
                                    ConfigParser_write(<<cfg[t][wpos[t] + 1]>>))
            /\ wpos' = [wpos EXCEPT ![t] = @ + 1]
            /\ IF wpos[t] + 1 = Len(cfg[t])
               THEN /\ pc' = [pc EXCEPT ![t] = "exit"]
                    /\ committed' = ini_lines'
               ELSE UNCHANGED <<pc, committed>>
            /\ UNCHANGED <<exc, faults>>
  /\ UNCHANGED <<ini_exists, flock, lock_counter, config_section, stack, conf, self, cfg,
                 result, calls, touched, presave, booted, secs>>

\* ------------------------------------------------------------- clear_auth
\* clear_auth line 82, update_azul_ini line 31: conf = get_config()
CaLoad(t) ==
  /\ pc[t] = "load"
  /\ Push(t, "get_config")
  /\ UNCHANGED <<ini_exists, ini_lines, config_section, conf, self,
                 cfg, wpos, exc, result, calls, faults, touched, committed, presave,
                 booted, secs>>

\* what the compound operation changes in the loaded Config
Reset(fn, r) == IF fn = "clear_auth"
                THEN [r EXCEPT !.auth_token = EmptyDict, !.auth_token_time = 0]
                ELSE [r EXCEPT !.auth_token_time = 0]

\* clear_auth lines 83-85, update_azul_ini lines 32-33: reset, then conf.save()
CaStore(t) ==
  /\ pc[t] = "store"
  /\ conf' = [conf EXCEPT ![t] = Some(Reset(Top(t), conf[t].rec))]
  /\ self' = [self EXCEPT ![t] = conf'[t]]
  /\ Push(t, "save")
  /\ UNCHANGED <<ini_exists, ini_lines, config_section, cfg, wpos,
                 exc, result, calls, faults, touched, committed, presave, booted, secs>>

\* ------------------------------------------------------------- specification
Functions == {"get_config", "save", "clear_auth", "update_azul_ini"}

Next ==
  \/ \E t \in Threads, fn \in Functions : Call(t, fn)
  \/ \E p \in Procs, s \in Sections : switch_section(p, s)
  \/ \E t \in Threads : Mutate(t)
  \/ \E t \in Threads : Poll(t)
  \/ \E t \in Threads : Timeout(t)
  \/ \E t \in Threads : Exit(t)
  \/ \E t \in Threads : GcExists(t)
  \/ \E t \in Threads : GcRead(t)
  \/ \E t \in Threads : SvMerge(t)
  \/ \E t \in Threads : SvOpen(t)
  \/ \E t \in Threads : SvWrite(t)
  \/ \E t \in Threads : CaLoad(t)
  \/ \E t \in Threads : CaStore(t)

Spec == Init /\ [][Next]_vars

\* ------------------------------------------------------------- round trip
\* One thread saves a Config and loads it back, with no other writer.  The
\* Config is any record the constructor accepts: its azul_url has been through
\* no_trailing_slash.
ValidConfigs == [azul_url : {no_trailing_slash(v) : v \in Str},
                 auth_token : {NoneToken, EmptyDict} \cup {Dict(v) : v \in Str},
                 auth_token_time : 0..MaxTime]

InitRT ==
  /\ \E f \in {[exists |-> FALSE, lines |-> <<>>],
               [exists |-> TRUE, lines |-> SectionLines("other", Populated)]} :
        ini_exists = f.exists /\ ini_lines = f.lines /\ committed = f.lines
  /\ \E r \in ValidConfigs : conf = [t \in Threads |-> IF t = 1 THEN Some(r) ELSE None]
  /\ flock = NoThread
  /\ lock_counter = [t \in Threads |-> 0]
  /\ config_section = [p \in Procs |-> "default"]
  /\ stack = [t \in Threads |-> <<>>]
  /\ pc = [t \in Threads |-> "idle"]
  /\ self = [t \in Threads |-> None]
  /\ cfg = [t \in Threads |-> <<>>]
  /\ wpos = [t \in Threads |-> 0]
  /\ exc = [t \in Threads |-> "none"]
  /\ result = [t \in Threads |-> "none"]
  /\ calls = 0
  /\ faults = 0
  /\ touched = [t \in Threads |-> FALSE]
  /\ presave = [t \in Threads |-> NoPresave]
  /\ booted = [t \in Threads |-> FALSE]
  /\ secs = [t \in Threads |-> {}]

\* conf.save(), and once it has returned, get_config()
CallRT(fn) ==
  /\ fn = "save" => calls = 0
  /\ fn = "get_config" => calls = 1 /\ result[1] = "ok"
  /\ Call(1, fn)

NextRT ==
  \/ \E fn \in {"save", "get_config"} : CallRT(fn)
  \/ SvMerge(1)
  \/ SvOpen(1)
  \/ SvWrite(1)
  \/ GcExists(1)
  \/ GcRead(1)
  \/ Exit(1)

SpecRT == InitRT /\ [][NextRT]_vars

\* ------------------------------------------------------------- a stale caller
\* Thread 1 holds a Config that it loaded earlier; the file has since been left
\* by other programs (or an editor) in any of the initial forms.
InitLoaded ==
  /\ \E f \in InitFiles : ini_exists = f.exists /\ ini_lines = f.lines
                          /\ committed = f.lines
  /\ conf = [t \in Threads |-> IF t = 1 THEN Some(Populated) ELSE None]
  /\ flock = NoThread
  /\ lock_counter = [t \in Threads |-> 0]
  /\ config_section = [p \in Procs |-> "default"]
  /\ stack = [t \in Threads |-> <<>>]
  /\ pc = [t \in Threads |-> "idle"]
  /\ self = [t \in Threads |-> None]
  /\ cfg = [t \in Threads |-> <<>>]
  /\ wpos = [t \in Threads |-> 0]
  /\ exc = [t \in Threads |-> "none"]
  /\ result = [t \in Threads |-> "none"]
  /\ calls = 0
  /\ faults = 0
  /\ touched = [t \in Threads |-> FALSE]
  /\ presave = [t \in Threads |-> NoPresave]
  /\ booted = [t \in Threads |-> FALSE]
  /\ secs = [t \in Threads |-> {}]

SpecLoaded == InitLoaded /\ [][Next]_vars

\* ------------------------------------------------------------- clear_auth workers
\* Worker threads call clear_auth, MaxWorkerCalls times between them, against a
\* pre-populated file whose default section holds a token.  The azul_url of
\* the section is a value that an earlier save has stored.  No I/O error is
\* injected.
ClearUrls == {<<"a">>, <<"%", "%">>}
ClearFiles ==
  UNION { { SectionLines("default", [Populated EXCEPT !.azul_url = u]),
            SectionLines("other", Populated)
              \o SectionLines("default", [Populated EXCEPT !.azul_url = u]) }
          : u \in ClearUrls }

InitClear ==
  /\ \E f \in ClearFiles : ini_lines = f /\ committed = f
  /\ ini_exists = TRUE
  /\ conf = [t \in Threads |-> None]
  /\ flock = NoThread
  /\ lock_counter = [t \in Threads |-> 0]
  /\ config_section = [p \in Procs |-> "default"]
  /\ stack = [t \in Threads |-> <<>>]
  /\ pc = [t \in Threads |-> "idle"]
  /\ self = [t \in Threads |-> None]
  /\ cfg = [t \in Threads |-> <<>>]
  /\ wpos = [t \in Threads |-> 0]
  /\ exc = [t \in Threads |-> "none"]
  /\ result = [t \in Threads |-> "none"]
  /\ calls = 0
  /\ faults = MaxFaults
  /\ touched = [t \in Threads |-> FALSE]
  /\ presave = [t \in Threads |-> NoPresave]
  /\ booted = [t \in Threads |-> FALSE]
  /\ secs = [t \in Threads |-> {}]

CallClearAuth(t) == calls < MaxWorkerCalls /\ Invoke(t, "clear_auth")

NextClear ==
  \/ \E t \in Threads : CallClearAuth(t)
  \/ \E t \in Threads : Poll(t)
  \/ \E t \in Threads : Timeout(t)
  \/ \E t \in Threads : Exit(t)
  \/ \E t \in Threads : GcExists(t)
  \/ \E t \in Threads : GcRead(t)
  \/ \E t \in Threads : SvMerge(t)
  \/ \E t \in Threads : SvOpen(t)
  \/ \E t \in Threads : SvWrite(t)
  \/ \E t \in Threads : CaLoad(t)
  \/ \E t \in Threads : CaStore(t)

SpecClear == InitClear /\ [][NextClear]_vars

\* ------------------------------------------------------------- update workers
\* The workers of test_multiprocessing_modify_azul_ini and
\* test_threading_modify_azul_ini: each runs update_azul_ini again and again,
\* MaxWorkerCalls times between them, against a file that loads and saves.  The
\* lock is handed to a waiting worker before its token_lock_timeout runs out,
\* and no I/O error is injected.
UpdateFiles ==
  { [exists |-> FALSE, lines |-> <<>>],
    [exists |-> TRUE, lines |-> SectionLines("default", Populated)],
    [exists |-> TRUE, lines |-> SectionLines("other", Populated)],
    [exists |-> TRUE, lines |-> SectionLines("other", DefaultConfig)
                                 \o SectionLines("default", Populated)] }

InitUpdate ==
  /\ \E f \in UpdateFiles : ini_exists = f.exists /\ ini_lines = f.lines
                            /\ committed = f.lines
  /\ conf = [t \in Threads |-> None]
  /\ flock = NoThread
  /\ lock_counter = [t \in Threads |-> 0]
  /\ config_section = [p \in Procs |-> "default"]
  /\ stack = [t \in Threads |-> <<>>]
  /\ pc = [t \in Threads |-> "idle"]
  /\ self = [t \in Threads |-> None]
  /\ cfg = [t \in Threads |-> <<>>]
  /\ wpos = [t \in Threads |-> 0]
  /\ exc = [t \in Threads |-> "none"]
  /\ result = [t \in Threads |-> "none"]
  /\ calls = 0
  /\ faults = MaxFaults
  /\ touched = [t \in Threads |-> FALSE]
  /\ presave = [t \in Threads |-> NoPresave]
  /\ booted = [t \in Threads |-> FALSE]
  /\ secs = [t \in Threads |-> {}]

CallUpdate(t) == calls < MaxWorkerCalls /\ Invoke(t, "update_azul_ini")

\* a statement of worker t that needs no lock hand-over
Step(t) ==
  \/ Exit(t) \/ GcExists(t) \/ GcRead(t) \/ SvMerge(t) \/ SvOpen(t) \/ SvWrite(t)
  \/ CaLoad(t) \/ CaStore(t)

\* worker t is in a call and past its wait for the lock: the states in which
\* Step(t) is enabled
Running(t) == stack[t] # <<>> /\ pc[t] # "waiting"

NextUpdate ==
  \/ \E t \in Threads : CallUpdate(t)
  \/ \E t \in Threads : Poll(t)
  \/ \E t \in Threads : Exit(t)
  \/ \E t \in Threads : GcExists(t)
  \/ \E t \in Threads : GcRead(t)
  \/ \E t \in Threads : SvMerge(t)
  \/ \E t \in Threads : SvOpen(t)
  \/ \E t \in Threads : SvWrite(t)
  \/ \E t \in Threads : CaLoad(t)
  \/ \E t \in Threads : CaStore(t)

\* every worker runs on (weak fairness of Step(t), with Running(t) written for
\* ENABLED <<Step(t)>>_vars), and a worker that keeps finding the lock free at
\* some of its polls gets it (fair hand-over)
SpecUpdate ==
  /\ InitUpdate /\ [][NextUpdate]_vars
  /\ \A t \in Threads : /\ SF_vars(Poll(t))
                        /\ []<>(~Running(t)) \/ []<><<Step(t)>>_vars

\* ------------------------------------------------------------- racing writers
\* Every caller has loaded the default section of the same file with its own
\* get_config(); the callers then change fields of what they hold and save,
\* in any order, each save locked on its own.  No I/O error is injected.
WriterFiles ==
  { SectionLines("default", Populated),
    SectionLines("other", DefaultConfig) \o SectionLines("default", Populated) }

InitWriters ==
  /\ \E f \in WriterFiles :
        /\ ini_lines = f /\ committed = f
        /\ conf = [t \in Threads |-> LoadConfig(TRUE, f, "default").conf]
  /\ ini_exists = TRUE
  /\ flock = NoThread
  /\ lock_counter = [t \in Threads |-> 0]
  /\ config_section = [p \in Procs |-> "default"]
  /\ stack = [t \in Threads |-> <<>>]
  /\ pc = [t \in Threads |-> "idle"]
  /\ self = [t \in Threads |-> None]
  /\ cfg = [t \in Threads |-> <<>>]
  /\ wpos = [t \in Threads |-> 0]
  /\ exc = [t \in Threads |-> "none"]
  /\ result = [t \in Threads |-> "none"]
  /\ calls = 0
  /\ faults = MaxFaults
  /\ touched = [t \in Threads |-> FALSE]
  /\ presave = [t \in Threads |-> NoPresave]
  /\ booted = [t \in Threads |-> FALSE]
  /\ secs = [t \in Threads |-> {}]

CallSave(t) == calls < MaxWorkerCalls /\ Invoke(t, "save")

NextWriters ==
  \/ \E t \in Threads : Mutate(t)
  \/ \E t \in Threads : CallSave(t)
  \/ \E t \in Threads : Poll(t)
  \/ \E t \in Threads : Timeout(t)
  \/ \E t \in Threads : Exit(t)
  \/ \E t \in Threads : SvMerge(t)
  \/ \E t \in Threads : SvOpen(t)
  \/ \E t \in Threads : SvWrite(t)

SpecWriters == InitWriters /\ [][NextWriters]_vars

\* ------------------------------------------------------------- claims
\* thread t is inside a lock-protected operation: past the acquisition of its
\* outermost call and before that call's release
Inside(t) == stack[t] # <<>> /\ pc[t] # "waiting"
Parsed(lines) == ConfigParser_read(TRUE, lines).cfg

\* C1: at most one process is inside a lock-protected operation, and a thread
\* that is about to check, read, truncate or write the config file holds the lock.
C1_CrossProcessExclusion ==
  /\ \A t, u \in Threads : Inside(t) /\ Inside(u) => ProcOf(t) = ProcOf(u)
  /\ \A t \in Threads : pc[t] \in FilePcs => flock = t
C1_Witness ==
  \E t, u \in Threads : /\ ProcOf(t) # ProcOf(u)
                        /\ pc[t] = "write" /\ flock = t
                        /\ pc[u] = "waiting"

C3_NoTornContent ==
  faults = 0 =>
    /\ \A t \in Threads : pc[t] \in {"read", "merge"} /\ flock = t => ini_lines = committed
    /\ (\A t \in Threads : stack[t] = <<>>) => ini_lines = committed
C3_Witness ==
  \E t, u \in Threads : /\ t # u /\ faults = 0
                        /\ pc[t] = "read" /\ flock = t
                        /\ result[u] = "ok" /\ ~conf[u].isnone
                        /\ \A f \in InitFiles : ini_lines # f.lines

\* C4: between the read of clear_auth's get_config and the end of the write of
\* its save, no other thread is checking, reading or writing the config file.
InClearAuthWindow(t) ==
  /\ stack[t] # <<>> /\ stack[t][1] = "clear_auth"
  /\ \/ Len(stack[t]) = 2 /\ Top(t) = "get_config" /\ pc[t] = "exit" /\ exc[t] = "none"
     \/ Len(stack[t]) = 1 /\ pc[t] = "store"
     \/ Len(stack[t]) = 2 /\ Top(t) = "save" /\ pc[t] \in {"waiting", "merge", "open", "write"}
C4_ClearAuthAtomic ==
  \A t, u \in Threads : InClearAuthWindow(t) /\ u # t => pc[u] \notin FilePcs
C4_Witness ==
  \E t, u \in Threads : /\ u # t /\ InClearAuthWindow(t) /\ pc[t] = "write"
                        /\ pc[u] = "waiting"

\* C5: a nested acquisition never waits and never times out: only an outermost
\* call waits for the lock, and the thread that holds the lock is always at a
\* statement it can execute, down to its outermost exit.
C5_Reentrancy ==
  \A t \in Threads : /\ pc[t] = "waiting" => Len(stack[t]) = 1 /\ flock # t
                     /\ exc[t] # "Timeout"
                     /\ flock = t => /\ stack[t] # <<>>
                                     /\ pc[t] \in BodyPcs \cup {"exit"}
                                     /\ pc[t] = "store" => ~conf[t].isnone
                                     /\ pc[t] = "write" => wpos[t] < Len(cfg[t])
C5_Witness ==
  \E t \in Threads : /\ stack[t] = <<"clear_auth", "get_config", "save">>
                     /\ pc[t] = "write" /\ lock_counter[t] = 3

\* C6: when an outermost call has ended, by return or by exception, its thread
\* holds neither the lock nor a count on it.
C6_ReleaseOnEveryExit ==
  /\ \A t \in Threads : stack[t] = <<>> => lock_counter[t] = 0 /\ flock # t
  /\ flock # NoThread => stack[flock] # <<>>
C6_Witness ==
  \E t, u \in Threads : /\ t # u
                        /\ stack[t] = <<>> /\ result[t] = "OSError"
                        /\ flock = u /\ pc[u] \in FilePcs

\* C7: a call that ended with Timeout ran none of its body: it did not use the
\* config file, holds nothing, and its thread is back with its caller.
C7_TimeoutIsFatal ==
  \A t \in Threads : result[t] = "Timeout" =>
     ~touched[t] /\ stack[t] = <<>> /\ lock_counter[t] = 0 /\ flock # t
C7_Witness ==
  \E t \in Threads : result[t] = "Timeout" /\ pc[t] = "idle" /\ flock \notin {NoThread, t}

\* C8: when save returns, every section other than the one it wrote that was in
\* the file at its re-read is in the file with the same options and values.
C8_SectionIsolation ==
  \A t \in Threads :
    stack[t] # <<>> /\ Top(t) = "save" /\ pc[t] = "exit" /\ exc[t] = "none" =>
      \A s \in SectionsOf(Parsed(presave[t].lines)) \ {presave[t].sec} :
         /\ HasSection(Parsed(ini_lines), s)
         /\ SectionItems(Parsed(ini_lines), s) = SectionItems(Parsed(presave[t].lines), s)
C8_Witness ==
  \E t \in Threads :
    /\ stack[t] # <<>> /\ Top(t) = "save" /\ pc[t] = "exit" /\ exc[t] = "none"
    /\ SectionsOf(Parsed(presave[t].lines)) \ {presave[t].sec} # {}
    /\ presave[t].sec \in SectionsOf(Parsed(presave[t].lines))
    /\ ini_lines # presave[t].lines

\* C10: a get_config that found no file, with the default section active, ends
\* with the defaults returned and stored in section default, and holds the
\* lock from the existence check to its exit.
C10_DefaultBootstrap ==
  \A t \in Threads :
    /\ booted[t] /\ stack[t] # <<>> => flock = t /\ lock_counter[t] >= 1
    /\ booted[t] /\ stack[t] # <<>> /\ Top(t) = "get_config" /\ pc[t] = "exit"
         /\ exc[t] = "none" /\ secs[t] = {"default"} =>
           /\ conf[t] = Some(DefaultConfig)
           /\ ini_exists
           /\ HasSection(Parsed(ini_lines), "default")
           /\ SectionItems(Parsed(ini_lines), "default") = model_dump(DefaultConfig)
C10_Witness ==
  \E t \in Threads : /\ booted[t] /\ stack[t] = <<"get_config">> /\ pc[t] = "exit"
                     /\ exc[t] = "none" /\ secs[t] = {"default"}

\* the file exists, parses, and has no section named as thread t's active section
LacksActiveSection(t) ==
  /\ ini_exists /\ ConfigParser_read(ini_exists, ini_lines).ok
  /\ ~HasSection(Parsed(ini_lines), config_section[ProcOf(t)])

\* C11: the read of get_config against an existing file that lacks the active
\* non-default section raises the invalid-section error, loads no Config and
\* leaves the file as it was; the error leaves the outermost call as its result,
\* again with no Config loaded and the file untouched.
C11_UnknownSectionFatal ==
  [][\A t \in Threads :
       /\ pc[t] = "read" /\ pc'[t] # "read" /\ LacksActiveSection(t)
            /\ config_section[ProcOf(t)] # "default" =>
              /\ exc'[t] = "Exception" /\ pc'[t] = "exit"
              /\ conf'[t] = conf[t]
              /\ ini_exists' = ini_exists /\ ini_lines' = ini_lines
       /\ exc[t] = "Exception" /\ stack'[t] # stack[t] =>
              /\ IF Len(stack[t]) = 1 THEN result'[t] = "Exception"
                                      ELSE exc'[t] = "Exception" /\ pc'[t] = "exit"
              /\ conf'[t] = conf[t]
              /\ ini_exists' = ini_exists /\ ini_lines' = ini_lines]_vars
C11_Witness ==
  \E t \in Threads : /\ result[t] = "Exception" /\ stack[t] = <<>> /\ conf[t].isnone
                     /\ LacksActiveSection(t) /\ config_section[ProcOf(t)] = "other"
                     /\ ini_lines = SectionLines("default", Populated)

\* C12: a get_config that found no file while a non-default section is active
\* ends with the invalid-section error: it returns no all-defaults Config and
\* leaves no file holding the chosen section.
C12_MissingFileNonDefaultFatal ==
  \A t \in Threads :
    /\ booted[t] /\ stack[t] # <<>> /\ Top(t) = "get_config" /\ pc[t] = "exit"
    /\ secs[t] = {"other"} /\ faults = 0
    => /\ exc[t] = "Exception"
       /\ conf[t] # Some(DefaultConfig)
       /\ ~(ini_exists /\ HasSection(Parsed(ini_lines), "other"))

\* the file is present and cannot be parsed as sections
Unparsable == ini_exists /\ ~ConfigParser_read(ini_exists, ini_lines).ok
\* the stored token of thread t's active section is non-empty and not valid JSON
CorruptToken(t) ==
  /\ ini_exists /\ ConfigParser_read(ini_exists, ini_lines).ok
  /\ HasSection(Parsed(ini_lines), config_section[ProcOf(t)])
  /\ LET items == SectionItems(Parsed(ini_lines), config_section[ProcOf(t)])
     IN /\ HasKey(items, "auth_token")
        /\ ValueOf(items, "auth_token") # <<>>
        /\ ~json_loads(ValueOf(items, "auth_token")).ok
CorruptErrors == {"ParsingError", "JSONDecodeError", "InterpolationSyntaxError"}
FileUnchanged == ini_exists' = ini_exists /\ ini_lines' = ini_lines

\* C13: the read of get_config against an unparsable file, or against an active
\* section whose token is not valid JSON, raises; save's re-read of an
\* unparsable file raises before the file is opened for writing; the error
\* passes every exit up to the caller; on none of these steps is a Config
\* loaded or the file changed.
C13_CorruptDataSurfaced ==
  [][\A t \in Threads :
       /\ pc[t] = "read" /\ pc'[t] # "read" /\ Unparsable =>
              /\ exc'[t] = "ParsingError" /\ pc'[t] = "exit"
              /\ conf'[t] = conf[t] /\ FileUnchanged
       /\ pc[t] = "read" /\ pc'[t] # "read" /\ CorruptToken(t) =>
              /\ exc'[t] \in {"JSONDecodeError", "InterpolationSyntaxError"}
              /\ pc'[t] = "exit"
              /\ conf'[t] = conf[t] /\ FileUnchanged
       /\ pc[t] = "merge" /\ pc'[t] # "merge" /\ Unparsable =>
              /\ exc'[t] = "ParsingError" /\ pc'[t] = "exit"
              /\ conf'[t] = conf[t] /\ FileUnchanged
       /\ exc[t] \in CorruptErrors /\ stack'[t] # stack[t] =>
              /\ IF Len(stack[t]) = 1 THEN result'[t] = exc[t]
                                      ELSE exc'[t] = exc[t] /\ pc'[t] = "exit"
              /\ conf'[t] = conf[t] /\ FileUnchanged]_vars
C13_Witness ==
  \E t, u \in Threads :
     /\ t # u
     /\ result[t] = "ParsingError" /\ stack[t] = <<>> /\ conf[t] = Some(Populated)
     /\ result[u] = "ParsingError" /\ stack[u] = <<>> /\ conf[u].isnone
     /\ Unparsable /\ ini_lines = committed

\* C14: when the workers' clear_auth calls have all finished, the file parses,
\* the default section's token is empty and its timestamp 0, its azul_url is
\* the stored one, and the other section is as it was.
C14_ClearAuthOutcome ==
  calls = MaxWorkerCalls /\ (\A t \in Threads : stack[t] = <<>>) =>
    /\ ini_exists /\ ConfigParser_read(ini_exists, ini_lines).ok
    /\ HasSection(Parsed(ini_lines), "default")
    /\ LET items == SectionItems(Parsed(ini_lines), "default")
       IN /\ ValueOf(items, "auth_token") = json_dumps(EmptyDict)
          /\ ValueOf(items, "auth_token_time") = str_int(0)
          /\ ValueOf(items, "azul_url") \in ClearUrls
    /\ HasSection(Parsed(ini_lines), "other") =>
          SectionItems(Parsed(ini_lines), "other") = model_dump(Populated)

\* some worker that is in a call can take a step
NotAllBlocked ==
  (\E t \in Threads : stack[t] # <<>>) =>
     \E t \in Threads : /\ stack[t] # <<>>
                        /\ pc[t] = "waiting" => flock_free
                        /\ pc[t] \in BodyPcs \cup {"exit", "waiting"}

\* C15: while workers run update_azul_ini, some worker in a call can always
\* take a step; no call ends with an error; and every call that has started
\* ends successfully.
C15_Progress ==
  /\ [](NotAllBlocked /\ \A t \in Threads : result[t] \in {"none", "running", "ok"})
  /\ \A t \in Threads : (stack[t] # <<>>) ~> (stack[t] = <<>> /\ result[t] = "ok")
C15_Witness ==
  \E t, u, v \in Threads :
     /\ ProcOf(t) = ProcOf(u) /\ t # u /\ ProcOf(v) # ProcOf(t)
     /\ stack[t] = <<"update_azul_ini", "save">> /\ pc[t] = "write" /\ lock_counter[t] = 2
     /\ pc[u] = "waiting" /\ pc[v] = "waiting"
     /\ calls = MaxWorkerCalls

\* C16: when a save returns, the active section of the file is the saver's
\* record in every field, whatever another caller saved there before; and no
\* save ends with an error (a caller may only time out waiting for the lock).
C16_LastWriterWins ==
  /\ \A t \in Threads :
       stack[t] # <<>> /\ Top(t) = "save" /\ pc[t] = "exit" /\ exc[t] = "none" =>
         /\ HasSection(Parsed(ini_lines), presave[t].sec)
         /\ SectionItems(Parsed(ini_lines), presave[t].sec) = model_dump(self[t].rec)
         /\ LoadConfig(ini_exists, ini_lines, presave[t].sec).conf = self[t]
  /\ \A t \in Threads : result[t] \in {"none", "running", "ok", "Timeout"}
                        /\ exc[t] = "none"
\* the second saver is about to return; the first saver's changed token is in
\* its own record and no longer in the file, and the first saver was told ok
C16_Witness ==
  \E t, u \in Threads :
     /\ t # u
     /\ stack[t] = <<"save">> /\ pc[t] = "exit" /\ exc[t] = "none"
     /\ result[u] = "ok" /\ stack[u] = <<>>
     /\ conf[u].rec.auth_token # conf[t].rec.auth_token
     /\ conf[u].rec.auth_token # Populated.auth_token
     /\ conf[t].rec.auth_token_time # Populated.auth_token_time
     /\ conf[u].rec.auth_token_time = Populated.auth_token_time
     /\ LoadConfig(ini_exists, ini_lines, "default").conf = conf[t]

\* C17: a thread that has taken the lock after a save of another process failed,
\* and is about to read the config file (in get_config, or in save's re-read),
\* finds it as the last completed write or the initial content left it.
C17_NoPartialFileAfterFailure ==
  \A t, u \in Threads :
    /\ ProcOf(u) # ProcOf(t) /\ result[u] = "OSError" /\ stack[u] = <<>>
    /\ pc[t] \in {"read", "merge"} /\ flock = t /\ Len(stack[t]) = 1
    => ini_lines = committed

\* C18: from its outermost acquisition to its outermost exit a thread holds the
\* flock, with one count per protected call it is in; the exit of a nested
\* call takes one count back and leaves the flock held, and the outermost exit
\* alone frees it.
C18_NestedReleaseKeepsLock ==
  [][\A t \in Threads :
       /\ Inside(t)' => flock' = t /\ lock_counter'[t] = Len(stack'[t])
       /\ flock = t /\ Len(stack'[t]) < Len(stack[t]) =>
            IF Len(stack[t]) >= 2
            THEN flock' = t /\ lock_counter'[t] = lock_counter[t] - 1
            ELSE flock' = NoThread /\ lock_counter'[t] = 0
       /\ flock # t /\ flock' = t => Len(stack'[t]) = 1 /\ lock_counter'[t] = 1]_vars
C18_Witness ==
  \E t, u \in Threads :
     /\ t # u /\ ProcOf(t) = ProcOf(u)
     /\ stack[t] = <<"clear_auth">> /\ pc[t] = "store" /\ exc[t] = "none"
     /\ flock = t /\ lock_counter[t] = 1
     /\ pc[u] = "waiting"

\* C19: the read of get_config against an existing file that has no section
\* "default", with "default" active, raises nothing, loads the compiled-in
\* defaults and leaves the file as it was; so does the return of get_config.
C19_SilentDefaultFallback ==
  [][\A t \in Threads :
       /\ pc[t] = "read" /\ pc'[t] # "read" /\ LacksActiveSection(t)
            /\ config_section[ProcOf(t)] = "default" =>
              /\ exc'[t] = "none" /\ pc'[t] = "exit"
              /\ conf'[t] = Some(DefaultConfig)
              /\ FileUnchanged
       /\ stack[t] # <<>> /\ Top(t) = "get_config" /\ pc[t] = "exit" /\ exc[t] = "none"
            /\ stack'[t] # stack[t] =>
              /\ Len(stack[t]) = 1 => result'[t] = "ok"
              /\ conf'[t] = conf[t]
              /\ FileUnchanged]_vars
C19_Witness ==
  \E t \in Threads :
     /\ result[t] = "ok" /\ stack[t] = <<>> /\ conf[t] = Some(DefaultConfig)
     /\ config_section[ProcOf(t)] = "default" /\ LacksActiveSection(t)
     /\ ini_lines = SectionLines("other", Populated) /\ calls = 1

\* C20: a step that changes a process's active section changes nothing else:
\* not the file, the lock, any call in progress, or the active section of
\* another process.  The read of get_config loads the section that is active
\* in the reader's process when it runs; save replaces the section that is
\* active in the saver's process when it runs (line 73), and when it returns
\* that section holds its record and every other section is as save found it.
C20_SwitchSectionRouting ==
  [][/\ config_section' # config_section =>
          /\ FileUnchanged /\ committed' = committed
          /\ flock' = flock /\ lock_counter' = lock_counter
          /\ stack' = stack /\ pc' = pc /\ conf' = conf /\ self' = self /\ cfg' = cfg
          /\ \E p \in Procs : \A q \in Procs \ {p} : config_section'[q] = config_section[q]
     /\ \A t \in Threads :
          /\ pc[t] = "read" /\ pc'[t] # "read" =>
               LET r == LoadConfig(ini_exists, ini_lines, config_section[ProcOf(t)])
               IN IF r.err = "none" THEN exc'[t] = "none" /\ conf'[t] = r.conf
                                    ELSE exc'[t] = r.err /\ conf'[t] = conf[t]
          /\ pc[t] = "merge" /\ pc'[t] = "open" =>
               /\ presave'[t].sec = config_section[ProcOf(t)]
               /\ HasSection(cfg'[t], config_section[ProcOf(t)])
               /\ SectionItems(cfg'[t], config_section[ProcOf(t)]) = model_dump(self[t].rec)
          /\ pc[t] = "write" /\ pc'[t] = "exit" /\ exc'[t] = "none" =>
               /\ HasSection(Parsed(ini_lines'), presave[t].sec)
               /\ SectionItems(Parsed(ini_lines'), presave[t].sec) = model_dump(self[t].rec)
               /\ \A s \in SectionsOf(Parsed(presave[t].lines)) \ {presave[t].sec} :
                    /\ HasSection(Parsed(ini_lines'), s)
                    /\ SectionItems(Parsed(ini_lines'), s)
                         = SectionItems(Parsed(presave[t].lines), s)]_vars
\* thread 1 holds the record of section default, its process has switched to
\* other, and its save is about to return: the record is in other, and default
\* is as it was
C20_Witness ==
  /\ stack[1] = <<"save">> /\ pc[1] = "exit" /\ exc[1] = "none"
  /\ conf[1] = Some(Populated)
  /\ config_section[ProcOf(1)] = "other" /\ config_section[ProcOf(3)] = "default"
  /\ presave[1].lines = SectionLines("default", Populated)
  /\ ini_lines = SectionLines("default", Populated) \o SectionLines("other", Populated)

\* C9: after save has returned, the load of the same section returns a Config
\* equal to the saved one, field by field (the saved Config is still conf[1]
\* when get_config is about to read the file).
C9_RoundTrip ==
  stack[1] = <<"get_config">> /\ pc[1] = "read" =>
    LoadConfig(ini_exists, ini_lines, config_section[ProcOf(1)]) =
      [err |-> "none", conf |-> conf[1]]

====
